---------------------------- MODULE Spec2Model ----------------------------
(***************************************************************************)
(* A model of gh-import-issues (src/src/main.rs): the Lambda handler that  *)
(* inserts a project row, then for each linked repository resolves its     *)
(* identity from the URL, inserts a repository row, fetches the first page *)
(* of open issues, drops the pull requests and inserts the surviving       *)
(* issues with one multi-row INSERT.                                       *)
(*                                                                         *)
(* Strings that the code takes apart (URLs) are sequences of one-character *)
(* strings.  The store and the upstream tracker are external: each call to *)
(* them either fails or succeeds, chosen nondeterministically, and the     *)
(* row count a successful issue INSERT reports is chosen by the store.     *)
(***************************************************************************)
EXTENDS Integers, Sequences, FiniteSets, TLC

(* ------------------------------ bounds -------------------------------- *)

\* longest repository list of a request
MaxRepos == 2
\* most items on a fetched page in the handler specification
MaxPage == 2
\* longest URL given to the resolver specification
MaxUrlLen == 7
\* most items on a page given to the classifier specification
MaxItems == 5
\* most open issues the tracker holds beyond one full page
MaxBeyond == 2

(* ----------------------------- constants ------------------------------- *)

\* .per_page(100)
PerPage == 100

(* ------------------------------ helpers -------------------------------- *)

\* all sequences over S of length 0..n
SeqsUpTo(S, n) == UNION {[1..k -> S] : k \in 0..n}

RECURSIVE SumSeq(_)
SumSeq(s) == IF s = <<>> THEN 0 ELSE Head(s) + SumSeq(Tail(s))

\* the handler instances (Lambda invocations) that share the store
Requests == {1, 2}

(* ----------------------- RepoInfo::from_url ---------------------------- *)

\* str::trim_end_matches('/'): removes every trailing '/'
RECURSIVE trim_end_matches(_)
trim_end_matches(s) ==
    IF Len(s) > 0 /\ s[Len(s)] = "/"
    THEN trim_end_matches(SubSeq(s, 1, Len(s) - 1))
    ELSE s

\* str::split('/'): the pieces between the separators, empty pieces kept;
\* the empty string gives one empty piece
RECURSIVE SplitFrom(_, _)
SplitFrom(s, cur) ==
    IF s = <<>> THEN <<cur>>
    ELSE IF Head(s) = "/" THEN <<cur>> \o SplitFrom(Tail(s), <<>>)
    ELSE SplitFrom(Tail(s), Append(cur, Head(s)))

split(s) == SplitFrom(s, <<>>)

\* Option<RepoInfo>::None
None == [some |-> FALSE, owner |-> <<>>, name |-> <<>>]

\* from_url that yields empty strings where there are fewer than two parts
from_url_or_default(url) ==
    LET parts == split(trim_end_matches(url))
    IN  IF Len(parts) >= 2
        THEN [some  |-> TRUE,
              owner |-> parts[Len(parts) - 1],
              name  |-> parts[Len(parts)]]
        ELSE [some |-> TRUE, owner |-> <<>>, name |-> <<>>]

\* lines 70-82: the last two of the pieces between slashes, if there are two
from_url(url) ==
    LET parts == split(trim_end_matches(url))
    IN  IF Len(parts) >= 2
        THEN [some  |-> TRUE,
              owner |-> parts[Len(parts) - 1],
              name  |-> parts[Len(parts)]]
        ELSE None


(* ------------------- upstream items and KudosIssue --------------------- *)

\* issue numbers the upstream tracker hands out in the model
ItemNumbers == {1, 2}

\* an octocrab Issue of number n; pr says whether its pull_request field is
\* Some.  Two labels of the same name: the code does not deduplicate them.
Item(n, pr) ==
    [number       |-> n,
     title        |-> <<"title", n>>,
     html_url     |-> <<"html_url", n>>,
     created_at   |-> 10 + n,
     updated_at   |-> 20 + n,
     user         |-> [login |-> "octocat"],
     labels       |-> <<[name |-> "bug"], [name |-> "bug"]>>,
     pull_request |-> pr]

\* impl From<Issue> for KudosIssue
KudosIssueFrom(value) ==
    [number           |-> value.number,
     title            |-> value.title,
     html_url         |-> value.html_url,
     issue_created_at |-> value.created_at,
     issue_updated_at |-> value.updated_at,
     user             |-> value.user.login,
     labels           |-> [i \in 1..Len(value.labels) |-> value.labels[i].name]]

\* FilterIssues with the test inverted (is_some for is_none)
FilterIssuesInverted(items) ==
    LET kept == SelectSeq(items, LAMBDA issue : issue.pull_request)
    IN  [k \in 1..Len(kept) |-> KudosIssueFrom(kept[k])]

\* page.items.into_iter().filter_map(|issue| issue.pull_request.is_none()
\*     .then(|| KudosIssue::from(issue))).collect()
\* (the items that pass, in the order of the iterator, each converted)
FilterIssues(items) ==
    LET kept == SelectSeq(items, LAMBDA issue : ~issue.pull_request)
    IN  [k \in 1..Len(kept) |-> KudosIssueFrom(kept[k])]

(* ------------------------ the issue INSERT ----------------------------- *)

\* Placeholders with the last group missing
PlaceholdersShort(n) ==
    [k \in 1..(n - 1) |->
        LET i == k - 1
        IN  <<i * 5 + 1, i * 5 + 2, i * 5 + 3, i * 5 + 4, i * 5 + 5>>]

\* the placeholder groups of the statement for n records: group i (0-based)
\* is ($5i+1, $5i+2, $5i+3, $5i+4, $5i+5)
Placeholders(n) ==
    [k \in 1..n |->
        LET i == k - 1
        IN  <<i * 5 + 1, i * 5 + 2, i * 5 + 3, i * 5 + 4, i * 5 + 5>>]

\* Binds with the issue number bound where the repository id belongs
BindsNumberAsRepo(filtered, rid) ==
    [p \in 1..(5 * Len(filtered)) |->
        LET issue == filtered[((p - 1) \div 5) + 1]
        IN  <<issue.number, issue.title, issue.labels, issue.number,
              issue.issue_created_at>>[((p - 1) % 5) + 1]]

\* Binds with the labels bound before the title
BindsLabelsFirst(filtered, rid) ==
    [p \in 1..(5 * Len(filtered)) |->
        LET issue == filtered[((p - 1) \div 5) + 1]
        IN  <<issue.number, issue.labels, issue.title, rid,
              issue.issue_created_at>>[((p - 1) % 5) + 1]]

\* the values bound, in order: number, title, labels, repo_id, created-at
\* of each record in turn; the p-th value bound is value (p-1) mod 5 of
\* record (p-1) div 5
Binds(filtered, rid) ==
    [p \in 1..(5 * Len(filtered)) |->
        LET issue == filtered[((p - 1) \div 5) + 1]
        IN  <<issue.number, issue.title, issue.labels, rid,
              issue.issue_created_at>>[((p - 1) % 5) + 1]]

\* the statement handed to the store
IssuesStatement(filtered, rid) ==
    [table        |-> "issues",
     columns      |-> <<"number", "title", "labels", "repository_id",
                        "issue_created_at">>,
     placeholders |-> Placeholders(Len(filtered)),
     binds        |-> Binds(filtered, rid)]

\* what the store makes of a statement INSERT INTO t (columns) VALUES groups:
\* one row per placeholder group, column c of the row taking the bound value
\* its placeholder $p names.  by is not a column: it records the request
\* that wrote the row.
StoreRows(stmt, by) ==
    [g \in 1..Len(stmt.placeholders) |->
        [c \in {stmt.columns[j] : j \in 1..Len(stmt.columns)} \cup {"by"} |->
            IF c = "by" THEN by
            ELSE LET j == CHOOSE j \in 1..Len(stmt.columns) : stmt.columns[j] = c
                 IN  stmt.binds[stmt.placeholders[g][j]]]]

\* whether the store can execute the statement at all: every placeholder
\* names a bound value and every bound value has a placeholder
WellFormed(stmt) ==
    LET groups == stmt.placeholders
        width == Len(stmt.columns)
    IN  /\ Len(groups) > 0
        /\ Len(stmt.binds) = Len(groups) * width
        /\ {Len(groups[g]) : g \in 1..Len(groups)} = {width}
        /\ {groups[g][j] : g \in 1..Len(groups), j \in 1..width}
               \subseteq 1..Len(stmt.binds)

(* ------------------------------ state ---------------------------------- *)

VARIABLES
    projects,               \* table projects, in insertion order
    repositories,           \* table repositories
    issues,                 \* table issues
    calls,                  \* every statement and fetch issued so far
    pc,                     \* where each handler instance stands
    event,                  \* its Lambda event
    project,                \* the decoded Project
    project_id,
    total_issues_imported,
    pos,                    \* position in links.repository of the loop
    repo_info,
    repo_id,
    page,                   \* page.items
    filtered_issues,
    result,                 \* what the handler returned
    arg,                    \* argument of a function under test
    ret,                    \* its result
    tracker,                \* the listings of open issues the tracker may hold
    instance                \* the Lambda instance each invocation runs on

store == <<projects, repositories, issues>>
locals == <<project, project_id, total_issues_imported, pos, repo_info,
            repo_id, page, filtered_issues>>
harness == <<arg, ret, tracker, instance>>
vars == <<projects, repositories, issues, calls, pc, event, project,
          project_id, total_issues_imported, pos, repo_info, repo_id, page,
          filtered_issues, result, arg, ret, tracker, instance>>

(* ---------------- the project and repository INSERTs ------------------- *)

\* Project::new_project_query with the six values the handler binds:
\* types goes to the categories column
ProjectStatement(p) ==
    [table        |-> "projects",
     columns      |-> <<"name", "slug", "categories", "purposes",
                        "stack_levels", "technologies">>,
     placeholders |-> <<<<1, 2, 3, 4, 5, 6>>>>,
     binds        |-> <<p.name, p.slug, p.attributes.types,
                        p.attributes.purposes, p.attributes.stack_levels,
                        p.attributes.technologies>>]

\* RepositoryStatement binding the id of the newest project row in the store
RepositoryStatementNewestProject(label, pid) ==
    [table        |-> "repositories",
     columns      |-> <<"slug", "project_id">>,
     placeholders |-> <<<<1, 2>>>>,
     binds        |-> <<label, Len(projects)>>]

\* Repository::insert_respository_query with the label and the project id
RepositoryStatement(label, pid) ==
    [table        |-> "repositories",
     columns      |-> <<"slug", "project_id">>,
     placeholders |-> <<<<1, 2>>>>,
     binds        |-> <<label, pid>>]

\* TableAfterInsert that overwrites the newest row (an upsert)
TableAfterUpsert(table, rows) ==
    IF table = <<>> THEN rows ELSE SubSeq(table, 1, Len(table) - 1) \o rows

\* TableAfterInsert that skips a row the table already holds (ON CONFLICT DO
\* NOTHING over the columns the statement names)
TableAfterInsertIfAbsent(table, rows) ==
    LET Same(x, y) ==
            /\ DOMAIN x = DOMAIN y
            /\ \A c \in DOMAIN x \ {"id", "by"} : x[c] = y[c]
    IN  table \o SelectSeq(rows,
            LAMBDA x : ~\E i \in 1..Len(table) : Same(table[i], x))

\* INSERT INTO: the table after rows are inserted
TableAfterInsert(table, rows) == table \o rows

\* RETURNING id: the store numbers the rows of a table serially
NextId(table) == Len(table) + 1

\* the single row of an INSERT ... RETURNING id, with the id the store gives
StoreRowWithId(stmt, by, id) == StoreRows(stmt, by)[1] @@ ("id" :> id)

(* ----------------------------- requests -------------------------------- *)

Labels == {"core", "docs"}

\* a URL that resolves (owner a, name w; trailing slash) and one that does not
GoodUrl == <<"a", "/", "w", "/">>
BadUrl == <<"w">>
Urls == {GoodUrl, BadUrl}

RepoEntries == [label : Labels, url : Urls]

ProjectWith(repos) ==
    [name       |-> "kudos",
     slug       |-> "kudos-ink",
     attributes |-> [purposes     |-> <<"p">>,
                     stack_levels |-> <<"s">>,
                     technologies |-> <<"rust", "rust">>,
                     types        |-> <<"t">>],
     links      |-> [repository |-> repos]]

Projects == {ProjectWith(l) : l \in SeqsUpTo(RepoEntries, MaxRepos)}

\* the Lambda event: the kind of its body, whether serde_json accepts the
\* text, and the Project it then yields
Events ==
    {[kind |-> "text", json_ok |-> TRUE, project |-> p] : p \in Projects}
    \cup {[kind |-> "binary", json_ok |-> FALSE, project |-> ProjectWith(<<>>)],
          [kind |-> "text", json_ok |-> FALSE, project |-> ProjectWith(<<>>)]}

\* the listings of open issues the tracker holds for the handler
\* specification: item i has number i
HandlerPages ==
    UNION {{[i \in 1..k |-> Item(i, f[i])] : f \in [1..k -> BOOLEAN]} :
           k \in 0..MaxPage}

\* what the store holds before the request: nothing, or an earlier import
EmptyStore == [projects |-> <<>>, repositories |-> <<>>, issues |-> <<>>]
EarlierImport ==
    [projects     |-> <<StoreRowWithId(ProjectStatement(ProjectWith(<<>>)), 0, 1)>>,
     repositories |-> <<StoreRowWithId(RepositoryStatement("core", 1), 0, 1)>>,
     issues       |-> StoreRows(IssuesStatement(
                          FilterIssues(<<Item(1, FALSE)>>), 1), 0)]
PriorStores == {EmptyStore, EarlierImport}

Pending == [kind |-> "pending", status |-> 0, body |-> <<>>, error |-> ""]
Err(e) == [kind |-> "err", status |-> 0, body |-> <<>>, error |-> e]

NotCalled == [called |-> FALSE, value |-> <<>>]
Returned(v) == [called |-> TRUE, value |-> v]

Repos(r) == project[r].links.repository

(* ---------------------------- the response ----------------------------- *)

Digits == <<"0", "1", "2", "3", "4", "5", "6", "7", "8", "9">>

\* Display of an unsigned integer: its decimal digits
RECURSIVE Decimal(_)
Decimal(n) ==
    IF n < 10 THEN <<Digits[n + 1]>>
    ELSE Decimal(n \div 10) \o <<Digits[(n % 10) + 1]>>

\* Response 200, text/plain, format!("Total issues imported: {}", total)
Ok(total) ==
    [kind   |-> "ok",
     status |-> 200,
     body   |-> <<"Total issues imported: ">> \o Decimal(total),
     error  |-> ""]

(* ------------------------ steps of the handler ------------------------- *)

\* one entry of calls
Call(r, op, k, stmt, ok, reply) ==
    [req |-> r, op |-> op, pos |-> k, stmt |-> stmt, ok |-> ok, reply |-> reply]

\* Propagate that swallows the error and carries on with the loop
PropagateSwallowed(r, e) ==
    /\ pc' = [pc EXCEPT ![r] = "loop"]
    /\ result' = result

\* Propagate that leaves the request where it is, to try the step again
PropagateRetry(r, e) ==
    /\ pc' = pc
    /\ result' = result

\* the ? operator on an Err: function_handler returns the error
Propagate(r, e) ==
    /\ pc' = [pc EXCEPT ![r] = "failed"]
    /\ result' = [result EXCEPT ![r] = Err(e)]

\* RepoAt walking the list from its end
RepoAtReversed(list, k) == list[Len(list) + 1 - k]

\* for repo in project.links.repository: the k-th entry taken
RepoAt(list, k) == list[k]

\* HasNext that stops one entry early
HasNextButLast(list, k) == k < Len(list) - 1

\* whether the loop has an entry left after the k-th
HasNext(list, k) == k < Len(list)

\* Accumulate adding the number of records sent
AccumulateSubmitted(total, reported, submitted) == total + submitted

\* total_issues_imported += issues_inserted_count, where the count is what
\* rows_affected() reported and submitted is the number of records sent
Accumulate(total, reported, submitted) == total + reported

\* the values of one iteration are dropped at its end
DropIteration(r) ==
    /\ repo_info' = [repo_info EXCEPT ![r] = None]
    /\ repo_id' = [repo_id EXCEPT ![r] = 0]
    /\ page' = [page EXCEPT ![r] = <<>>]
    /\ filtered_issues' = [filtered_issues EXCEPT ![r] = <<>>]

\* run(service_fn(function_handler)): an instance takes its invocations one
\* at a time; r waits for the earlier ones on its instance
Dispatched(r) ==
    \A q \in Requests :
        (q < r /\ instance[q] = instance[r]) =>
            pc[q] \in {"idle", "done", "failed"}

\* lines 114-124: the body must be text and parse as a Project
Decode(r) ==
    /\ pc[r] = "start"
    /\ Dispatched(r)
    /\ IF event[r].kind # "text"
       THEN /\ Propagate(r, "Invalid request body type")
            /\ UNCHANGED project
       ELSE IF ~event[r].json_ok
       THEN /\ Propagate(r, "Error parsing JSON")
            /\ UNCHANGED project
       ELSE /\ project' = [project EXCEPT ![r] = event[r].project]
            /\ pc' = [pc EXCEPT ![r] = "connect"]
            /\ UNCHANGED result
    /\ UNCHANGED <<store, calls, event, project_id, total_issues_imported,
                   pos, repo_info, repo_id, page, filtered_issues, harness>>

\* line 126: DATABASE_URL is read and the pool connects, or not
Connect(r) ==
    /\ pc[r] = "connect"
    /\ \E ok \in BOOLEAN :
           IF ok
           THEN pc' = [pc EXCEPT ![r] = "insert_project"] /\ UNCHANGED result
           ELSE Propagate(r, "connect")
    /\ UNCHANGED <<store, calls, event, locals, harness>>

\* lines 128-140: the project row is inserted and its id read back
InsertProject(r) ==
    /\ pc[r] = "insert_project"
    /\ LET stmt == ProjectStatement(project[r])
           id == NextId(projects)
       IN  \E ok \in BOOLEAN :
               IF ok
               THEN /\ projects' = TableAfterInsert(projects,
                                       <<StoreRowWithId(stmt, r, id)>>)
                    /\ project_id' = [project_id EXCEPT ![r] = id]
                    /\ calls' = Append(calls,
                                   Call(r, "insert_project", 0, stmt, TRUE, id))
                    /\ pc' = [pc EXCEPT ![r] = "client"]
                    /\ UNCHANGED result
               ELSE /\ calls' = Append(calls,
                                   Call(r, "insert_project", 0, stmt, FALSE, 0))
                    /\ Propagate(r, "sqlx")
                    /\ UNCHANGED <<projects, project_id>>
    /\ UNCHANGED <<repositories, issues, event, project,
                   total_issues_imported, pos, repo_info, repo_id, page,
                   filtered_issues, harness>>

\* lines 142-145: GITHUB_TOKEN is read and the client built, or not; the
\* total starts at 0
BuildClient(r) ==
    /\ pc[r] = "client"
    /\ \E ok \in BOOLEAN :
           IF ok
           THEN /\ total_issues_imported' =
                       [total_issues_imported EXCEPT ![r] = 0]
                /\ pc' = [pc EXCEPT ![r] = "loop"]
                /\ UNCHANGED result
           ELSE /\ Propagate(r, "token")
                /\ UNCHANGED total_issues_imported
    /\ UNCHANGED <<store, calls, event, project, project_id, pos, repo_info,
                   repo_id, page, filtered_issues, harness>>

\* lines 147-149: the loop takes the next entry and resolves its URL
ResolveRepo(r) ==
    /\ pc[r] = "loop"
    /\ HasNext(Repos(r), pos[r])
    /\ pos' = [pos EXCEPT ![r] = pos[r] + 1]
    /\ LET info == from_url(RepoAt(Repos(r), pos[r] + 1).url)
       IN  IF info.some
           THEN /\ repo_info' = [repo_info EXCEPT ![r] = info]
                /\ pc' = [pc EXCEPT ![r] = "insert_repository"]
                /\ UNCHANGED result
           ELSE /\ Propagate(r, "Couldn't extract repo info from url")
                /\ UNCHANGED repo_info
    /\ UNCHANGED <<store, calls, event, project, project_id,
                   total_issues_imported, repo_id, page, filtered_issues,
                   harness>>

\* lines 151-159: the repository row is inserted and its id read back
InsertRepository(r) ==
    /\ pc[r] = "insert_repository"
    /\ LET stmt == RepositoryStatement(RepoAt(Repos(r), pos[r]).label,
                                       project_id[r])
           id == NextId(repositories)
       IN  \E ok \in BOOLEAN :
               IF ok
               THEN /\ repositories' = TableAfterInsert(repositories,
                                           <<StoreRowWithId(stmt, r, id)>>)
                    /\ repo_id' = [repo_id EXCEPT ![r] = id]
                    /\ calls' = Append(calls,
                           Call(r, "insert_repository", pos[r], stmt, TRUE, id))
                    /\ pc' = [pc EXCEPT ![r] = "fetch"]
                    /\ UNCHANGED result
               ELSE /\ calls' = Append(calls,
                           Call(r, "insert_repository", pos[r], stmt, FALSE, 0))
                    /\ Propagate(r, "sqlx")
                    /\ UNCHANGED <<repositories, repo_id>>
    /\ UNCHANGED <<projects, issues, event, project, project_id,
                   total_issues_imported, pos, repo_info, page,
                   filtered_issues, harness>>

\* lines 161-167: one request for the open issues, 100 per page
ListRequest(info) ==
    [owner |-> info.owner, name |-> info.name, state |-> "open",
     per_page |-> PerPage]

\* PageItems as following every next page would give them
AllPagesItems(listing, req) == listing

\* page.items of the one response: the tracker answers a request that names
\* no page with the first per_page items of its listing
PageItems(listing, req) ==
    SubSeq(listing, 1,
           IF Len(listing) < req.per_page THEN Len(listing) ELSE req.per_page)

FetchIssues(r) ==
    /\ pc[r] = "fetch"
    /\ LET req == ListRequest(repo_info[r])
       IN  \/ \E listing \in tracker :
                  /\ page' = [page EXCEPT ![r] = PageItems(listing, req)]
                  /\ calls' = Append(calls,
                         Call(r, "list_issues", pos[r], req, TRUE, 0))
                  /\ pc' = [pc EXCEPT ![r] = "classify"]
                  /\ UNCHANGED result
           \/ /\ calls' = Append(calls,
                     Call(r, "list_issues", pos[r], req, FALSE, 0))
              /\ Propagate(r, "octocrab")
              /\ UNCHANGED page
    /\ UNCHANGED <<store, event, project, project_id, total_issues_imported,
                   pos, repo_info, repo_id, filtered_issues, harness>>

\* NothingToInsert that never holds: the statement is built all the same
AlwaysSomethingToInsert(filtered) == FALSE

\* line 180: filtered_issues.is_empty()
NothingToInsert(filtered) == filtered = <<>>

\* lines 169-182: pull requests are dropped; with nothing left the loop
\* continues with the next entry
Classify(r) ==
    /\ pc[r] = "classify"
    /\ LET filtered == FilterIssues(page[r])
       IN  IF NothingToInsert(filtered)
           THEN /\ DropIteration(r)
                /\ pc' = [pc EXCEPT ![r] = "loop"]
           ELSE /\ filtered_issues' = [filtered_issues EXCEPT ![r] = filtered]
                /\ pc' = [pc EXCEPT ![r] = "insert_issues"]
                /\ UNCHANGED <<repo_info, repo_id, page>>
    /\ UNCHANGED <<store, calls, event, project, project_id,
                   total_issues_imported, pos, result, harness>>

\* lines 184-218: one INSERT for all the records; the count the store
\* reports is added to the total
InsertIssues(r) ==
    /\ pc[r] = "insert_issues"
    /\ LET stmt == IssuesStatement(filtered_issues[r], repo_id[r])
           n == Len(filtered_issues[r])
       IN  \/ /\ WellFormed(stmt)
              /\ \E reported \in 0..n :
                     /\ issues' = TableAfterInsert(issues, StoreRows(stmt, r))
                     /\ calls' = Append(calls,
                            Call(r, "insert_issues", pos[r], stmt, TRUE, reported))
                     /\ total_issues_imported' =
                            [total_issues_imported EXCEPT ![r] =
                                Accumulate(total_issues_imported[r], reported, n)]
              /\ DropIteration(r)
              /\ pc' = [pc EXCEPT ![r] = "loop"]
              /\ UNCHANGED result
           \/ /\ calls' = Append(calls,
                     Call(r, "insert_issues", pos[r], stmt, FALSE, 0))
              /\ Propagate(r, "sqlx")
              /\ UNCHANGED <<issues, total_issues_imported, repo_info,
                             repo_id, page, filtered_issues>>
    /\ UNCHANGED <<projects, repositories, event, project, project_id, pos,
                   harness>>

\* lines 221-229: after the last entry the total is returned
Respond(r) ==
    /\ pc[r] = "loop"
    /\ ~HasNext(Repos(r), pos[r])
    /\ result' = [result EXCEPT ![r] = Ok(total_issues_imported[r])]
    /\ pc' = [pc EXCEPT ![r] = "done"]
    /\ UNCHANGED <<store, calls, event, locals, harness>>

(* --------------------------- specifications ---------------------------- *)

\* the handler's variables before it runs
Fresh ==
    /\ project = [r \in Requests |-> ProjectWith(<<>>)]
    /\ project_id = [r \in Requests |-> 0]
    /\ total_issues_imported = [r \in Requests |-> 0]
    /\ pos = [r \in Requests |-> 0]
    /\ repo_info = [r \in Requests |-> None]
    /\ repo_id = [r \in Requests |-> 0]
    /\ page = [r \in Requests |-> <<>>]
    /\ filtered_issues = [r \in Requests |-> <<>>]
    /\ result = [r \in Requests |-> Pending]
    /\ calls = <<>>

NoEvent == [kind |-> "binary", json_ok |-> FALSE, project |-> ProjectWith(<<>>)]

\* one invocation of the handler against a store
Init ==
    /\ Fresh
    /\ \E s \in PriorStores :
           /\ projects = s.projects
           /\ repositories = s.repositories
           /\ issues = s.issues
    /\ pc = [r \in Requests |-> IF r = 1 THEN "start" ELSE "idle"]
    /\ \E e \in Events : event = [r \in Requests |-> IF r = 1 THEN e ELSE NoEvent]
    /\ arg = <<>>
    /\ ret = NotCalled
    /\ tracker = HandlerPages
    /\ instance = [r \in Requests |-> 1]

Next ==
    \E r \in Requests :
        \/ Decode(r)
        \/ Connect(r)
        \/ InsertProject(r)
        \/ BuildClient(r)
        \/ ResolveRepo(r)
        \/ InsertRepository(r)
        \/ FetchIssues(r)
        \/ Classify(r)
        \/ InsertIssues(r)
        \/ Respond(r)

Spec == Init /\ [][Next]_vars

(* ------------- specifications of the two pure functions ---------------- *)

\* no handler runs
Idle ==
    /\ Fresh
    /\ projects = <<>>
    /\ repositories = <<>>
    /\ issues = <<>>
    /\ pc = [r \in Requests |-> "idle"]
    /\ event = [r \in Requests |-> NoEvent]
    /\ tracker = {}
    /\ instance = [r \in Requests |-> 1]

\* the characters of the URLs tried: the separator and two letters (the
\* resolver treats every other character alike)
UrlChars == {"/", "a", "w"}

InitUrl ==
    /\ Idle
    /\ arg \in SeqsUpTo(UrlChars, MaxUrlLen)
    /\ ret = NotCalled

\* RepoInfo::from_url(arg)
CallFromUrl ==
    /\ ~ret.called
    /\ ret' = Returned(from_url(arg))
    /\ UNCHANGED <<store, calls, pc, event, locals, result, arg, tracker,
                   instance>>

NextUrl == CallFromUrl

SpecUrl == InitUrl /\ [][NextUrl]_vars

\* the items of the pages tried: numbers may repeat and come in any order
ClassifierItems == {Item(n, pr) : n \in ItemNumbers, pr \in BOOLEAN}

InitClassify ==
    /\ Idle
    /\ arg \in SeqsUpTo(ClassifierItems, MaxItems)
    /\ ret = NotCalled

\* the filter_map of lines 169-178 on the page arg
CallClassify ==
    /\ ~ret.called
    /\ ret' = Returned(FilterIssues(arg))
    /\ UNCHANGED <<store, calls, pc, event, locals, result, arg, tracker,
                   instance>>

NextClassify == CallClassify

SpecClassify == InitClassify /\ [][NextClassify]_vars

(* ======================= the resolver's claims ========================= *)

\* where the non-empty path segments of a URL start: the maximal runs of
\* characters other than the separator
SegStarts(url) ==
    {i \in 1..Len(url) : url[i] # "/" /\ (i = 1 \/ url[i - 1] = "/")}

\* the segment that starts at i
SegAt(url, i) ==
    SubSeq(url, i,
           CHOOSE j \in i..Len(url) :
               /\ \A k \in i..j : url[k] # "/"
               /\ j = Len(url) \/ url[j + 1] = "/")

LastStart(url) == CHOOSE i \in SegStarts(url) : \A j \in SegStarts(url) : j <= i
PrevStart(url) ==
    CHOOSE i \in SegStarts(url) \ {LastStart(url)} :
        \A j \in SegStarts(url) \ {LastStart(url)} : j <= i

\* C7: for any URL with at least two non-empty path segments the resolver
\* succeeds and returns the last two non-empty segments, the second-to-last
\* as owner and the last as name.
C7_LastTwoNonEmptySegments ==
    (ret.called /\ Cardinality(SegStarts(arg)) >= 2) =>
        /\ ret.value.some
        /\ ret.value.owner = SegAt(arg, PrevStart(arg))
        /\ ret.value.name = SegAt(arg, LastStart(arg))

\* C8: for any URL with fewer than two path segments resolution fails.
C8_FewerThanTwoSegmentsFails ==
    (ret.called /\ Cardinality(SegStarts(arg)) < 2) => ~ret.value.some

(* ====================== the classifier's claim ========================= *)

\* positions of the items of a page whose pull-request marker is absent
Kept(items) == {i \in 1..Len(items) : ~items[i].pull_request}

\* the k-th smallest of them
KthKept(items, k) ==
    CHOOSE i \in Kept(items) : Cardinality({j \in Kept(items) : j <= i}) = k

\* C6: the classifier's output is the subsequence of the items without a
\* pull-request marker: as many records as there are such items, the k-th
\* record made from the k-th such item, so the order is kept and nothing is
\* sorted, dropped twice or added.
C6_ClassifierKeepsIssuesInOrder ==
    ret.called =>
        /\ Len(ret.value) = Cardinality(Kept(arg))
        /\ \A k \in 1..Len(ret.value) :
               LET item == arg[KthKept(arg, k)]
               IN  /\ ret.value[k].number = item.number
                   /\ ret.value[k].title = item.title
                   /\ ret.value[k].issue_created_at = item.created_at
                   /\ ret.value[k].labels = <<"bug", "bug">>

\* five fetched items, two of them pull requests, three records out, with
\* a repeated number and numbers out of order
C6_Witness ==
    /\ ret.called
    /\ Len(arg) = 5
    /\ Cardinality(Kept(arg)) = 3
    /\ Len(ret.value) = 3
    /\ arg[1].pull_request
    /\ ret.value[1].number = 2
    /\ ret.value[2].number = 1
    /\ ret.value[3].number = 2

(* ======================= the handler's claims ========================== *)

\* the calls request r has issued, in order
CallsOf(r) == SelectSeq(calls, LAMBDA c : c.req = r)

\* the rows of a table that request r wrote
RowsBy(table, r) == SelectSeq(table, LAMBDA x : x.by = r)

IsPrefix(s, t) == Len(s) <= Len(t) /\ SubSeq(t, 1, Len(s)) = s

\* the counts the store reported for r's issue inserts
ReportedCounts(r) ==
    LET done == SelectSeq(CallsOf(r), LAMBDA c : c.op = "insert_issues" /\ c.ok)
    IN  [i \in 1..Len(done) |-> done[i].reply]

\* C1, in every state: a failed call is the last call of its request, which
\* has ended in failure; a failed request has issued no call for an entry
\* after the one it was processing, and none at all for an entry whose
\* identity did not resolve; a request that returned a total had no failure.
C1_Aborted ==
    \A r \in Requests :
        LET cs == CallsOf(r)
        IN  /\ \A i \in 1..Len(cs) :
                   ~cs[i].ok => /\ i = Len(cs)
                                /\ pc[r] = "failed"
                                /\ result[r].kind = "err"
            /\ pc[r] = "failed" =>
                   /\ result[r].kind = "err"
                   /\ \A i \in 1..Len(cs) : cs[i].pos <= pos[r]
            /\ result[r].error = "Couldn't extract repo info from url" =>
                   /\ pc[r] = "failed"
                   /\ \A i \in 1..Len(cs) : cs[i].pos < pos[r]
            /\ result[r].kind = "ok" => \A i \in 1..Len(cs) : cs[i].ok

\* C1, in every step: a request that has failed stays failed, issues no
\* further call and writes no further row.
C1_Ended ==
    \A r \in Requests :
        pc[r] = "failed" =>
            /\ pc'[r] = "failed"
            /\ result'[r] = result[r]
            /\ CallsOf(r)' = CallsOf(r)
            /\ RowsBy(projects, r)' = RowsBy(projects, r)
            /\ RowsBy(repositories, r)' = RowsBy(repositories, r)
            /\ RowsBy(issues, r)' = RowsBy(issues, r)

\* C1: if a step fails while the k-th entry is processed, the request ends
\* in failure at once: nothing is written or fetched for a later entry,
\* nothing more is done for entry k, and no total is returned.
C1_FailureAbortsRequest == []C1_Aborted /\ [][C1_Ended]_vars

\* a step for the first of two entries has failed
C1_Witness ==
    /\ pc[1] = "failed"
    /\ Len(Repos(1)) = 2
    /\ pos[1] = 1
    /\ calls # <<>>
    /\ calls[Len(calls)].op = "list_issues"
    /\ ~calls[Len(calls)].ok

\* C2: in every step, the failing ones included, each table only grows at
\* its end: no row is changed or removed.
C2_InsertOnly ==
    [][/\ IsPrefix(projects, projects')
       /\ IsPrefix(repositories, repositories')
       /\ IsPrefix(issues, issues')]_vars

\* the write for the second entry has failed; the rows of the earlier import
\* and the project, repository and issue rows of the first entry are there
C2_Witness ==
    /\ pc[1] = "failed"
    /\ pos[1] = 2
    /\ calls[Len(calls)].op \in {"insert_repository", "insert_issues"}
    /\ ~calls[Len(calls)].ok
    /\ RowsBy(projects, 0) # <<>>
    /\ RowsBy(issues, 0) # <<>>
    /\ Len(RowsBy(projects, 1)) = 1
    /\ Len(RowsBy(repositories, 1)) >= 1
    /\ Len(RowsBy(issues, 1)) = 2

\* C3: every issue row a request wrote carries the id that the store gave
\* to a repository row the same request wrote before it, and every
\* repository row it wrote carries the id of the one project row it wrote.
C3_ForeignKeys ==
    \A r \in Requests :
        /\ \A i \in 1..Len(issues) :
               issues[i].by = r =>
                   /\ \E j \in 1..Len(repositories) :
                          /\ repositories[j].by = r
                          /\ repositories[j].id = issues[i].repository_id
                   /\ \E a, b \in 1..Len(calls) :
                          /\ a < b
                          /\ calls[a].req = r /\ calls[b].req = r
                          /\ calls[a].op = "insert_repository" /\ calls[a].ok
                          /\ calls[a].reply = issues[i].repository_id
                          /\ calls[b].op = "insert_issues" /\ calls[b].ok
                          /\ calls[b].pos = calls[a].pos
        /\ \A j \in 1..Len(repositories) :
               repositories[j].by = r =>
                   /\ Len(RowsBy(projects, r)) = 1
                   /\ RowsBy(projects, r)[1].id = repositories[j].project_id
                   /\ project_id[r] = repositories[j].project_id

\* after an earlier import, issue rows for the request's second repository
C3_Witness ==
    /\ RowsBy(repositories, 0) # <<>>
    /\ \E i \in 1..Len(issues) :
           /\ issues[i].by = 1
           /\ issues[i].repository_id = 3
           /\ issues[i].number = 1
    /\ \E j \in 1..Len(repositories) :
           /\ repositories[j].by = 1
           /\ repositories[j].id = 3
           /\ repositories[j].project_id = 2

\* the number a sequence of decimal digits denotes
RECURSIVE ParseDecimal(_)
ParseDecimal(ds) ==
    IF ds = <<>> THEN 0
    ELSE ParseDecimal(SubSeq(ds, 1, Len(ds) - 1)) * 10
         + (CHOOSE d \in 0..9 : Digits[d + 1] = ds[Len(ds)])

\* C4: the running total is the sum of the counts the store reported for
\* the request's issue inserts (a skipped insert adds nothing), and the
\* response of a successful request is the fixed text followed by it.
C4_TotalIsSumOfReportedCounts ==
    \A r \in Requests :
        /\ pc[r] \in {"loop", "insert_repository", "fetch", "classify",
                      "insert_issues", "done"} =>
               total_issues_imported[r] = SumSeq(ReportedCounts(r))
        /\ pc[r] = "done" =>
               /\ result[r].kind = "ok"
               /\ result[r].status = 200
               /\ Head(result[r].body) = "Total issues imported: "
               /\ Len(result[r].body) > 1
               /\ ParseDecimal(Tail(result[r].body)) = SumSeq(ReportedCounts(r))

\* two entries: for the first the store reported 1 of 2 records, the insert
\* for the second was skipped; the response carries 1
C4_Witness ==
    /\ pc[1] = "done"
    /\ Len(Repos(1)) = 2
    /\ \E i \in 1..Len(calls) :
           /\ calls[i].op = "insert_issues"
           /\ calls[i].pos = 1
           /\ Len(calls[i].stmt.placeholders) = 2
           /\ calls[i].reply = 1
    /\ ~\E i \in 1..Len(calls) : calls[i].op = "insert_issues" /\ calls[i].pos = 2
    /\ result[1].body = <<"Total issues imported: ", "1">>

\* items of a page without a pull-request marker
Surviving(items) == Cardinality({i \in 1..Len(items) : ~items[i].pull_request})

\* C5: with N surviving issues on the fetched page: if N = 0 the request
\* goes on to the next entry with no statement issued and the total as it
\* was; if N > 0 its next call is one insert statement with N parameter
\* groups.
C5_OneStatementOfNGroups ==
    [][\A r \in Requests :
           LET n == Surviving(page[r])
           IN  /\ (pc[r] = "classify" /\ pc'[r] # pc[r]) =>
                      /\ calls' = calls
                      /\ total_issues_imported'[r] = total_issues_imported[r]
                      /\ issues' = issues
                      /\ pc'[r] = IF n = 0 THEN "loop" ELSE "insert_issues"
               /\ (pc[r] = "insert_issues" /\ pc'[r] # pc[r]) =>
                      /\ n > 0
                      /\ Len(calls') = Len(calls) + 1
                      /\ calls'[Len(calls')].op = "insert_issues"
                      /\ calls'[Len(calls')].req = r
                      /\ Len(calls'[Len(calls')].stmt.placeholders) = n
                      /\ Len(issues') \in {Len(issues), Len(issues) + n}]_vars

\* a statement of two groups for the first entry, none for the second,
\* whose page held no issue that survived
C5_Witness ==
    /\ pc[1] = "loop"
    /\ pos[1] = 2
    /\ page[1] = <<>>
    /\ Len(calls) = 6
    /\ calls[4].op = "insert_issues" /\ calls[4].ok
    /\ Len(calls[4].stmt.placeholders) = 2
    /\ Len(RowsBy(issues, 1)) = 2
    /\ calls[6].op = "list_issues" /\ calls[6].ok
    /\ total_issues_imported[1] = 2

\* the issue rows that carry repository id rid
IssuesOf(rid) == SelectSeq(issues, LAMBDA x : x.repository_id = rid)

\* C9: a request's calls come in the order of its repository list, each
\* entry having at most one repository insert and at most one issue insert;
\* its k-th repository row is the row of the k-th entry; and the issue rows
\* of one of its repositories are either none or all the records of that
\* entry's single batch, never a part of them.
C9_WrittenInListOrder ==
    \A r \in Requests :
        LET cs == CallsOf(r)
            rs == RowsBy(repositories, r)
        IN  /\ \A i, j \in 1..Len(cs) :
                   i < j => /\ cs[i].pos <= cs[j].pos
                            /\ cs[i].op = cs[j].op => cs[i].pos < cs[j].pos
            /\ \A i \in 1..Len(cs) :
                   cs[i].op = "insert_repository" =>
                       cs[i].stmt.binds[1] = Repos(r)[cs[i].pos].label
            /\ \A k \in 1..Len(rs) :
                   /\ rs[k].slug = Repos(r)[k].label
                   /\ k > 1 => rs[k - 1].id < rs[k].id
                   /\ LET batch == SelectSeq(cs, LAMBDA c :
                                       c.op = "insert_issues" /\ c.ok /\ c.pos = k)
                      IN  IF batch = <<>>
                          THEN IssuesOf(rs[k].id) = <<>>
                          ELSE /\ Len(batch) = 1
                               /\ Len(IssuesOf(rs[k].id)) =
                                      Len(batch[1].stmt.placeholders)
                               /\ \A g \in 1..Len(IssuesOf(rs[k].id)) :
                                      IssuesOf(rs[k].id)[g].number =
                                          batch[1].stmt.binds[5 * (g - 1) + 1]

\* two entries of different labels, a batch of two issues for the first and
\* of one for the second
C9_Witness ==
    /\ pc[1] = "done"
    /\ Len(Repos(1)) = 2
    /\ Repos(1)[1].label = "docs"
    /\ Repos(1)[2].label = "core"
    /\ Len(RowsBy(repositories, 1)) = 2
    /\ Len(IssuesOf(RowsBy(repositories, 1)[1].id)) = 2
    /\ Len(IssuesOf(RowsBy(repositories, 1)[2].id)) = 1

\* how many of a request's calls of one kind succeeded
Succeeded(r, op) == Len(SelectSeq(CallsOf(r), LAMBDA c : c.op = op /\ c.ok))

\* C10: a request issues the project insert once, before every other call,
\* and has one project row from then on; it has one repository row for each
\* entry it has got past; and when it succeeds it has as many repository
\* rows as the list has entries, all carrying the id of its project row.
C10_OneProjectOneRowPerEntry ==
    \A r \in Requests :
        LET cs == CallsOf(r)
            rs == RowsBy(repositories, r)
        IN  /\ \A i \in 1..Len(cs) : cs[i].op = "insert_project" <=> i = 1
            /\ Len(RowsBy(projects, r)) = Succeeded(r, "insert_project")
            /\ pc[r] \in {"client", "loop", "insert_repository", "fetch",
                          "classify", "insert_issues", "done"} =>
                   Len(RowsBy(projects, r)) = 1
            /\ Len(rs) = Succeeded(r, "insert_repository")
            /\ pc[r] \in {"loop", "fetch", "classify", "insert_issues", "done"} =>
                   Len(rs) = pos[r]
            /\ pc[r] = "insert_repository" => Len(rs) = pos[r] - 1
            /\ pc[r] = "failed" => Len(rs) \in {pos[r] - 1, pos[r]} \cap Nat
            /\ pc[r] = "done" =>
                   /\ Len(rs) = Len(Repos(r))
                   /\ \A k \in 1..Len(rs) :
                          rs[k].project_id = RowsBy(projects, r)[1].id

\* a request of two entries has succeeded on a store that held an earlier
\* import, without writing an issue
C10_Witness ==
    /\ pc[1] = "done"
    /\ Len(Repos(1)) = 2
    /\ Len(RowsBy(projects, 0)) = 1
    /\ Len(RowsBy(projects, 1)) = 1
    /\ Len(RowsBy(repositories, 1)) = 2
    /\ RowsBy(repositories, 1)[2].project_id = 2
    /\ RowsBy(issues, 1) = <<>>

(* ===================== the fetch and the page size ===================== *)

\* listings about one page long: one short of a full page up to MaxBeyond
\* more than a full page, every item a plain issue
LongListings ==
    {[i \in 1..n |-> Item(i, FALSE)] : n \in (PerPage - 1)..(PerPage + MaxBeyond)}

OneRepository == ProjectWith(<<[label |-> "core", url |-> GoodUrl]>>)

\* one invocation as in Init, or one for a single repository whose tracker
\* holds one of the long listings
InitPaging ==
    /\ Fresh
    /\ \E s \in PriorStores :
           /\ projects = s.projects
           /\ repositories = s.repositories
           /\ issues = s.issues
    /\ pc = [r \in Requests |-> IF r = 1 THEN "start" ELSE "idle"]
    /\ arg = <<>>
    /\ ret = NotCalled
    /\ instance = [r \in Requests |-> 1]
    /\ \/ /\ tracker = HandlerPages
          /\ \E e \in Events :
                 event = [r \in Requests |-> IF r = 1 THEN e ELSE NoEvent]
       \/ /\ \E l \in LongListings : tracker = {l}
          /\ event = [r \in Requests |->
                         IF r = 1
                         THEN [kind |-> "text", json_ok |-> TRUE,
                               project |-> OneRepository]
                         ELSE NoEvent]

SpecPaging == InitPaging /\ [][Next]_vars

\* C11: a request sends the tracker at most one request for each entry, for
\* the open issues with 100 to a page; a failed fetch is the request's last
\* call; so the page held, the records kept and the issue rows of any of
\* its repositories number at most 100, whatever the tracker holds.
C11_OneFetchOfOnePage ==
    \A r \in Requests :
        LET cs == CallsOf(r)
            rs == RowsBy(repositories, r)
        IN  /\ \A i, j \in 1..Len(cs) :
                   (cs[i].op = "list_issues" /\ cs[j].op = "list_issues"
                    /\ cs[i].pos = cs[j].pos) => i = j
            /\ \A i \in 1..Len(cs) :
                   cs[i].op = "list_issues" =>
                       /\ cs[i].stmt.per_page = 100
                       /\ cs[i].stmt.state = "open"
                       /\ ~cs[i].ok => i = Len(cs) /\ pc[r] = "failed"
            /\ Len(page[r]) <= 100
            /\ Len(filtered_issues[r]) <= 100
            /\ \A k \in 1..Len(rs) : Len(IssuesOf(rs[k].id)) <= 100

\* the tracker holds 102 open issues of a repository; one fetch was made and
\* 100 issue rows were written for it
C11_Witness ==
    /\ pc[1] = "done"
    /\ \E l \in tracker : Len(l) = 102
    /\ Len(SelectSeq(calls, LAMBDA c : c.op = "list_issues")) = 1
    /\ Len(RowsBy(repositories, 1)) = 1
    /\ Len(IssuesOf(RowsBy(repositories, 1)[1].id)) = 100

(* -------------------------- the import run twice ------------------------ *)

\* the same event delivered twice to one instance: request 2 runs after
\* request 1 has ended, and the tracker holds one listing throughout
InitTwice ==
    /\ Fresh
    /\ \E s \in PriorStores :
           /\ projects = s.projects
           /\ repositories = s.repositories
           /\ issues = s.issues
    /\ pc = [r \in Requests |-> "start"]
    /\ \E e \in Events : event = [r \in Requests |-> e]
    /\ arg = <<>>
    /\ ret = NotCalled
    /\ \E l \in HandlerPages : tracker = {l}
    /\ instance = [r \in Requests |-> 1]

SpecTwice == InitTwice /\ [][Next]_vars

\* what a row says, apart from the ids the store gave and the ghost field
RowContent(row) ==
    [c \in DOMAIN row \ {"id", "by", "project_id", "repository_id"} |-> row[c]]

ContentsOf(rows) == [i \in 1..Len(rows) |-> RowContent(rows[i])]

\* C12: when the same event has been imported twice with success, nothing
\* of the first run was replaced or reused: each run has its own project
\* row and its own repository row for every entry, under different ids, and
\* the issue rows of the second run's k-th repository are a second copy of
\* those of the first run's k-th repository.
C12_SecondRunAddsSecondCopy ==
    (pc[1] = "done" /\ pc[2] = "done") =>
        LET p1 == RowsBy(projects, 1)
            p2 == RowsBy(projects, 2)
            r1 == RowsBy(repositories, 1)
            r2 == RowsBy(repositories, 2)
        IN  /\ Len(p1) = 1 /\ Len(p2) = 1
            /\ ContentsOf(p1) = ContentsOf(p2)
            /\ p1[1].id # p2[1].id
            /\ Len(projects) = Len(RowsBy(projects, 0)) + 2
            /\ Len(r1) = Len(Repos(1)) /\ Len(r2) = Len(Repos(1))
            /\ ContentsOf(r1) = ContentsOf(r2)
            /\ Len(repositories) =
                   Len(RowsBy(repositories, 0)) + 2 * Len(Repos(1))
            /\ \A k \in 1..Len(r1) :
                   /\ r1[k].id # r2[k].id
                   /\ r1[k].project_id = p1[1].id
                   /\ r2[k].project_id = p2[1].id
                   /\ ContentsOf(IssuesOf(r2[k].id)) =
                          ContentsOf(IssuesOf(r1[k].id))
            /\ Len(RowsBy(issues, 2)) = Len(RowsBy(issues, 1))
            /\ Len(issues) = Len(RowsBy(issues, 0)) + 2 * Len(RowsBy(issues, 1))

\* two runs over two entries with two open issues each: two project rows,
\* four repository rows and eight issue rows
C12_Witness ==
    /\ pc[1] = "done" /\ pc[2] = "done"
    /\ Len(projects) = 2
    /\ Len(repositories) = 4
    /\ Len(issues) = 8
    /\ Len(RowsBy(issues, 2)) = 4

(* ------------------------- two requests at once ------------------------- *)

MaxConcRepos == 1

\* request 1 imports repositories labelled core, request 2 ones labelled
\* docs
ConcLabel(r) == IF r = 1 THEN "core" ELSE "docs"

\* request 1 has up to MaxConcRepos entries, request 2 has one
ConcEvents(r) ==
    {[kind |-> "text", json_ok |-> TRUE, project |-> ProjectWith(l)] :
        l \in SeqsUpTo([label : {ConcLabel(r)}, url : Urls],
                       IF r = 1 THEN MaxConcRepos ELSE 1)}

\* the listings the tracker holds while two requests run: no open issue,
\* or MaxPage of them
ConcPages == {[i \in 1..k |-> Item(i, FALSE)] : k \in {0, MaxPage}}

\* two invocations on two instances, each with its own event, over an empty
\* store: their steps interleave freely
InitConc ==
    /\ Fresh
    /\ projects = <<>> /\ repositories = <<>> /\ issues = <<>>
    /\ pc = [r \in Requests |-> "start"]
    /\ \E e1 \in ConcEvents(1), e2 \in ConcEvents(2) :
           event = [r \in Requests |-> IF r = 1 THEN e1 ELSE e2]
    /\ arg = <<>>
    /\ ret = NotCalled
    /\ tracker = ConcPages
    /\ instance = [r \in Requests |-> r]

SpecConc == InitConc /\ [][Next]_vars

\* C13: with two requests in flight each works on its own values: the
\* project id a request holds is the id of the one project row it wrote;
\* its repository rows carry that id and the labels of its own list, in
\* order; its issue rows belong to repository rows it wrote itself; and its
\* total, and the number it answers with, is the sum of the counts reported
\* for its own issue inserts.
C13_RequestsDoNotInterfere ==
    \A r \in Requests :
        LET ps == RowsBy(projects, r)
            rs == RowsBy(repositories, r)
            is == RowsBy(issues, r)
        IN  /\ Len(ps) <= 1
            /\ Len(ps) = 1 => project_id[r] = ps[1].id
            /\ Len(rs) <= Len(Repos(r))
            /\ \A k \in 1..Len(rs) :
                   /\ Len(ps) = 1
                   /\ rs[k].project_id = ps[1].id
                   /\ rs[k].slug = Repos(r)[k].label
                   /\ \A i \in 1..Len(issues) :
                          issues[i].repository_id = rs[k].id => issues[i].by = r
            /\ \A i \in 1..Len(is) :
                   \E k \in 1..Len(rs) : rs[k].id = is[i].repository_id
            /\ pc[r] = "fetch" =>
                   /\ Len(rs) = pos[r]
                   /\ repo_id[r] = rs[pos[r]].id
            /\ pc[r] \in {"loop", "insert_repository", "fetch", "classify",
                          "insert_issues", "done"} =>
                   total_issues_imported[r] = SumSeq(ReportedCounts(r))
            /\ pc[r] = "done" =>
                   /\ Len(result[r].body) > 1
                   /\ ParseDecimal(Tail(result[r].body)) =
                          SumSeq(ReportedCounts(r))

\* both requests ended with success after interleaving: request 1 wrote its
\* project row first and its repository row second, and the two answered
\* with different totals
C13_Witness ==
    /\ pc[1] = "done" /\ pc[2] = "done"
    /\ Len(projects) = 2 /\ projects[1].by = 1
    /\ Len(repositories) = 2 /\ repositories[1].by = 2
    /\ repositories[1].slug = "docs" /\ repositories[2].slug = "core"
    /\ Len(RowsBy(issues, 1)) = 2 /\ Len(RowsBy(issues, 2)) = 2
    /\ result[1].body = <<"Total issues imported: ", "2">>
    /\ result[2].body = <<"Total issues imported: ", "1">>

(* ------------------------ the steps for one entry ----------------------- *)

\* a URL in which a slash is followed, somewhere, by another character:
\* the URLs for which an owner and a name can be told apart
Resolves(url) ==
    \E i, j \in 1..Len(url) : i < j /\ url[i] = "/" /\ url[j] # "/"

\* C14: the calls of a request for one entry come in the order repository
\* insert, fetch, issue insert, each directly after the success of the one
\* before, and the repository insert only for an entry whose URL resolves;
\* the page is classified between the fetch and the issue insert, whose
\* rows are not there before it; an entry whose URL does not resolve ends
\* the request with no call and no row for it; a failed fetch ends it with
\* the entry's repository row stored and no issue row under it.
C14_StepsInOrder ==
    \A r \in Requests :
        LET cs == CallsOf(r)
            rs == RowsBy(repositories, r)
            Of(k) == {i \in 1..Len(cs) : cs[i].pos = k}
        IN  /\ \A i \in 1..Len(cs) :
                   /\ cs[i].op = "insert_repository" =>
                          /\ Resolves(Repos(r)[cs[i].pos].url)
                          /\ \A j \in Of(cs[i].pos) : i <= j
                   /\ cs[i].op = "list_issues" =>
                          /\ i > 1
                          /\ cs[i - 1].op = "insert_repository"
                          /\ cs[i - 1].ok
                          /\ cs[i - 1].pos = cs[i].pos
                   /\ cs[i].op = "insert_issues" =>
                          /\ i > 1
                          /\ cs[i - 1].op = "list_issues"
                          /\ cs[i - 1].ok
                          /\ cs[i - 1].pos = cs[i].pos
                          /\ \A j \in Of(cs[i].pos) : j <= i
                   /\ (cs[i].op = "list_issues" /\ ~cs[i].ok) =>
                          /\ pc[r] = "failed"
                          /\ Len(rs) = cs[i].pos
                          /\ rs[cs[i].pos].id = cs[i - 1].reply
                          /\ IssuesOf(cs[i - 1].reply) = <<>>
            /\ pc[r] \in {"classify", "insert_issues"} =>
                   /\ cs[Len(cs)].op = "list_issues"
                   /\ cs[Len(cs)].ok
                   /\ cs[Len(cs)].pos = pos[r]
                   /\ IssuesOf(repo_id[r]) = <<>>
            /\ \A k \in 1..pos[r] :
                   ~Resolves(Repos(r)[k].url) =>
                       /\ k = pos[r]
                       /\ pc[r] = "failed"
                       /\ Of(k) = {}
                       /\ Len(rs) = k - 1

\* the first entry went through all its steps; the second has its
\* repository row and its fetch failed, leaving no issue row under it
C14_Witness ==
    /\ pc[1] = "failed"
    /\ pos[1] = 2
    /\ Len(calls) = 6
    /\ calls[4].op = "insert_issues" /\ calls[4].ok
    /\ calls[5].op = "insert_repository"
    /\ calls[6].op = "list_issues" /\ ~calls[6].ok
    /\ Len(RowsBy(repositories, 1)) = 2
    /\ IssuesOf(calls[5].reply) = <<>>
    /\ Len(IssuesOf(calls[2].reply)) = 2

(* ------------------- an entry with nothing to import -------------------- *)

\* the step that leaves classification with a page on which nothing
\* survives: the request has not failed and goes back to the loop at the
\* same entry; the entry's repository row is in the store; no call is
\* issued, no row written and the total is as it was
C15_SkipStep ==
    \A r \in Requests :
        (pc[r] = "classify" /\ Surviving(page[r]) = 0 /\ pc'[r] # pc[r]) =>
            /\ pc'[r] = "loop"
            /\ result'[r] = Pending
            /\ pos'[r] = pos[r]
            /\ project'[r] = project[r]
            /\ Len(RowsBy(repositories, r)) = pos[r]
            /\ RowsBy(repositories, r)[pos[r]].id = repo_id[r]
            /\ IssuesOf(repo_id[r]) = <<>>
            /\ calls' = calls
            /\ store' = store
            /\ total_issues_imported'[r] = total_issues_imported[r]

\* a request back at the loop takes the next entry if there is one and
\* answers if there is none; one that answered has a repository row for
\* every entry
C15_LoopGoesOn ==
    \A r \in Requests :
        /\ (pc[r] = "loop" /\ pos[r] < Len(Repos(r))) => ENABLED ResolveRepo(r)
        /\ (pc[r] = "loop" /\ pos[r] = Len(Repos(r))) => ENABLED Respond(r)
        /\ pc[r] = "done" => Len(RowsBy(repositories, r)) = Len(Repos(r))

\* C15: an entry whose page has no surviving issue (no item, or pull
\* requests only) does not fail the request: its repository row stays
\* written, no issue insert is issued, the total is unchanged, and the loop
\* goes on to the entries after it.
C15_EmptyRepositoryIsNoFailure == []C15_LoopGoesOn /\ [][C15_SkipStep]_vars

\* two issues imported for the first entry, nothing for the second: the
\* request answers 2 and the second repository row has no issue row
C15_Witness ==
    /\ pc[1] = "done"
    /\ Len(Repos(1)) = 2
    /\ Len(calls) = 6
    /\ calls[4].op = "insert_issues" /\ calls[4].reply = 2
    /\ calls[6].op = "list_issues" /\ calls[6].ok /\ calls[6].pos = 2
    /\ Len(RowsBy(repositories, 1)) = 2
    /\ IssuesOf(RowsBy(repositories, 1)[2].id) = <<>>
    /\ result[1].body = <<"Total issues imported: ", "2">>

(* --------------------- what a resolved URL yields ----------------------- *)

\* C16: whenever the resolver succeeds, the owner and the name it returns
\* are non-empty segments of the URL.
C16_ResolvedPartsNonEmpty ==
    (ret.called /\ ret.value.some) =>
        /\ ret.value.owner # <<>>
        /\ ret.value.name # <<>>
        /\ \E i, j \in SegStarts(arg) :
               /\ i < j
               /\ ret.value.owner = SegAt(arg, i)
               /\ ret.value.name = SegAt(arg, j)

(* ------------------ the statement of the issue insert ------------------- *)

\* the placeholder numbers of a statement, group after group
RECURSIVE Flatten(_)
Flatten(groups) ==
    IF groups = <<>> THEN <<>> ELSE Head(groups) \o Flatten(Tail(groups))

\* the step that issues the insert for the N records of filtered_issues:
\* the statement's placeholders, read group after group, are 1, 2, ..., 5N;
\* group i (0-based) holds 5i+1..5i+5; the values bound to them are record
\* i's number, title, labels, the repository id of the entry and
\* created-at; and the rows written, if any, are the N records in order,
\* each under that repository id
C17_InsertStep ==
    \A r \in Requests :
        (pc[r] = "insert_issues" /\ pc'[r] # pc[r]) =>
            LET recs == filtered_issues[r]
                n == Len(recs)
                stmt == calls'[Len(calls')].stmt
                new == SubSeq(issues', Len(issues) + 1, Len(issues'))
            IN  /\ Len(calls') = Len(calls) + 1
                /\ calls'[Len(calls')].op = "insert_issues"
                /\ Len(stmt.placeholders) = n
                /\ Flatten(stmt.placeholders) = [p \in 1..(5 * n) |-> p]
                /\ Len(stmt.binds) = 5 * n
                /\ \A i \in 0..(n - 1) :
                       /\ stmt.placeholders[i + 1] =
                              <<5 * i + 1, 5 * i + 2, 5 * i + 3, 5 * i + 4,
                                5 * i + 5>>
                       /\ stmt.binds[5 * i + 1] = recs[i + 1].number
                       /\ stmt.binds[5 * i + 2] = recs[i + 1].title
                       /\ stmt.binds[5 * i + 3] = recs[i + 1].labels
                       /\ stmt.binds[5 * i + 4] = repo_id[r]
                       /\ stmt.binds[5 * i + 5] = recs[i + 1].issue_created_at
                /\ Len(new) \in {0, n}
                /\ \A g \in 1..Len(new) :
                       /\ new[g].repository_id = repo_id[r]
                       /\ new[g].number = recs[g].number
                       /\ new[g].title = recs[g].title
                       /\ new[g].labels = recs[g].labels
                       /\ new[g].issue_created_at = recs[g].issue_created_at

\* C17: the insert for N records numbers its placeholders 1..5N, each once,
\* group i using 5i+1..5i+5, and binds to them each record's number, title,
\* labels, the current repository id and created-at in that order, so that
\* every row of the batch has the same repository id and the records keep
\* their order.
C17_PlaceholdersAndBinds == [][C17_InsertStep]_vars

\* a statement for two records was executed under the second repository id
\* of the store: ten placeholders, ten values, the fourth and the ninth of
\* them that id
C17_Witness ==
    /\ calls # <<>>
    /\ LET c == calls[Len(calls)]
       IN  /\ c.op = "insert_issues" /\ c.ok
           /\ Len(c.stmt.placeholders) = 2
           /\ c.stmt.placeholders[2] = <<6, 7, 8, 9, 10>>
           /\ Len(c.stmt.binds) = 10
           /\ c.stmt.binds[4] = 2 /\ c.stmt.binds[9] = 2
           /\ c.stmt.binds[6] = 2 /\ c.stmt.binds[7] = <<"title", 2>>
    /\ Len(IssuesOf(2)) = 2

(* ----------------------------- termination ------------------------------ *)

\* one invocation over an empty store, the tracker holding no open issue or
\* MaxPage of them
InitFair ==
    /\ Fresh
    /\ projects = <<>> /\ repositories = <<>> /\ issues = <<>>
    /\ pc = [r \in Requests |-> IF r = 1 THEN "start" ELSE "idle"]
    /\ \E e \in Events : event = [r \in Requests |-> IF r = 1 THEN e ELSE NoEvent]
    /\ arg = <<>>
    /\ ret = NotCalled
    /\ tracker = ConcPages
    /\ instance = [r \in Requests |-> 1]

\* every await of the handler returns: a step that can be taken is taken
SpecFair == InitFair /\ [][Next]_vars /\ WF_vars(Next)

\* how many calls of kind op request r has issued for entry k
CallsFor(r, op, k) ==
    Cardinality({i \in 1..Len(calls) :
        calls[i].req = r /\ calls[i].op = op /\ calls[i].pos = k})

\* the work of a request: one project insert at most, and for each entry
\* of its list at most one repository insert, one fetch and one issue
\* insert; no call for anything but an entry of the list
C18_BoundedWork ==
    \A r \in Requests :
        /\ Cardinality({i \in 1..Len(calls) :
               calls[i].req = r /\ calls[i].op = "insert_project"}) <= 1
        /\ \A i \in 1..Len(calls) :
               (calls[i].req = r /\ calls[i].op # "insert_project") =>
                   /\ calls[i].pos \in 1..Len(Repos(r))
                   /\ CallsFor(r, calls[i].op, calls[i].pos) = 1
        /\ pos[r] <= Len(Repos(r))
        /\ pc[r] = "done" => result[r].kind = "ok"
        /\ pc[r] = "failed" => result[r].kind = "err"

\* the loop only moves forward, one entry at a time, and a request that has
\* ended stays as it ended
C18_NeverRevisits ==
    \A r \in Requests :
        /\ pos'[r] \in {pos[r], pos[r] + 1}
        /\ pc[r] \in {"done", "failed"} =>
               /\ pc'[r] = pc[r]
               /\ result'[r] = result[r]
               /\ calls' = calls

\* C18: when every store write and every fetch returns, a request over a
\* finite list ends, with a total or with a failure; it issues at most one
\* project insert and, for each entry, at most one repository insert, one
\* fetch and one issue insert, and never goes back to an entry.
C18_EveryRequestEnds ==
    /\ \A r \in Requests :
           (pc[r] = "start") ~> (pc[r] \in {"done", "failed"})
    /\ []C18_BoundedWork
    /\ [][C18_NeverRevisits]_vars

\* a request that went through two entries, with all seven of its calls,
\* and answered
C18_Witness ==
    /\ pc[1] = "done"
    /\ result[1].kind = "ok"
    /\ pos[1] = 2
    /\ Len(calls) = 7
    /\ CallsFor(1, "insert_repository", 2) = 1
    /\ CallsFor(1, "list_issues", 2) = 1
    /\ CallsFor(1, "insert_issues", 2) = 1
=============================================================================
